---- MODULE Spec2Model ----
(***************************************************************************)
(* User Data Fetcher (src/user-data-fetcher/script.js).                    *)
(*                                                                         *)
(* The page has one button.  A click runs handleFetchUsers, which awaits   *)
(* fetchUsers and then renders with displayUsers.  fetchUsers suspends     *)
(* twice: on fetch(API_URL) and on response.json().  Every synchronous     *)
(* segment between two suspension points is one action.  The segment that  *)
(* ends fetchUsers and the segment that resumes handleFetchUsers are two   *)
(* actions, but the second is a microtask queued by the first: it runs     *)
(* before any other task of the event loop (see MicrotaskPending).         *)
(*                                                                         *)
(* Text is a sequence of string pieces: a template literal is the          *)
(* concatenation of its pieces, join('') is concatenation.                 *)
(***************************************************************************)
EXTENDS Integers, Sequences, FiniteSets, TLC

\* ------------------------------------------------------------------ bounds
\* Number of clicks on the button in one behaviour.
MaxTriggers == 3
\* Longest array the endpoint answers with.
MaxUsers == 2

Triggers == 1..MaxTriggers

\* ------------------------------------------------------------- data model
\* A JSON value as the script sees it: an array of users, null, or an object
\* that is no array.  Undefined is the value of a local not yet assigned.
Undefined == [kind |-> "undefined", items |-> <<>>]
JsonNull == [kind |-> "null", items |-> <<>>]
JsonObject == [kind |-> "object", items |-> <<>>]

\* An optional property is <<>> when absent and <<v>> when present.
MkUser(id, name, email, address) ==
    [id |-> id, name |-> name, email |-> email, address |-> address]

SAMPLE_USERS ==
    [kind |-> "array",
     items |-> << MkUser(1, "Leanne Graham", "Sincere@april.biz",
                         <<[city |-> <<"Gwenborough">>]>>),
                  MkUser(2, "Ervin Howell", "Shanna@melissa.tv",
                         <<[city |-> <<"Wisokyburgh">>]>>),
                  MkUser(3, "Clementine Bauch", "Nathan@yesenia.net",
                         <<[city |-> <<"McKenziehaven">>]>>) >>]

\* What the endpoint may put in an array: two well-formed users, one whose
\* address has no city, one with no address at all.
EndpointUsers ==
    { MkUser(1, "A", "a@x.com", <<[city |-> <<"C">>]>>),
      MkUser(2, "B", "b@y.org", <<[city |-> <<"D">>]>>),
      MkUser(3, "N", "n@z.net", <<[city |-> <<>>]>>),
      MkUser(4, "M", "m@w.io", <<>>) }

ArraysUpTo(n) ==
    UNION { [1..k -> EndpointUsers] : k \in 0..n }

\* Bodies that parse as JSON.
JsonValues ==
    { [kind |-> "array", items |-> a] : a \in ArraysUpTo(MaxUsers) }
        \cup {JsonNull, JsonObject}

\* Status codes the endpoint answers with.
Statuses == {200, 404, 500}

\* response.ok
Ok(status) == status >= 200 /\ status <= 299

\* Number to text, as the template literal in line 124 converts it.
StatusText(status) ==
    CASE status = 200 -> "200"
      [] status = 404 -> "404"
      [] status = 500 -> "500"
      [] OTHER -> "NaN"

\* String(v) of an optional string property inside a template literal.
ToText(opt) == IF opt = <<>> THEN "undefined" ELSE opt[1]

\* error.message of the rejections the platform produces.
FetchRejections == { <<"Failed to fetch">> }
JsonRejections == { <<"Unexpected token '<' is not valid JSON">> }

HttpErrorMessage(status) == <<"HTTP error! Status: ", StatusText(status)>>

NoUsersText == <<"No users found.">>
UnexpectedText == <<"An unexpected error occurred. Please try again.">>
FailedText(message) ==
    <<"Failed to fetch users: ">> \o message \o <<". Showing sample data.">>

\* ------------------------------------------------------------ DOM handlers
\* The display: the class and text of #loading, #errorMessage and
\* #usersContainer.
InitDom ==
    [loadingHidden |-> TRUE, errorHidden |-> TRUE,
     errorText |-> <<>>, usersHTML |-> <<>>]

\* showLoading without `usersContainer.innerHTML = ''`.
showLoading_keepCards(d) ==
    [d EXCEPT !.loadingHidden = FALSE, !.errorHidden = TRUE]

\* showLoading without `errorMessageElement.classList.add('hidden')`.
showLoading_keepError(d) ==
    [d EXCEPT !.loadingHidden = FALSE, !.usersHTML = <<>>]

showLoading(d) ==
    [d EXCEPT !.loadingHidden = FALSE, !.errorHidden = TRUE, !.usersHTML = <<>>]

\* hideLoading that leaves the class list alone.
hideLoading_noop(d) == d

hideLoading(d) == [d EXCEPT !.loadingHidden = TRUE]

displayError(d, message) ==
    [hideLoading(d) EXCEPT !.errorText = message, !.errorHidden = FALSE]

clearError(d) == [d EXCEPT !.errorHidden = TRUE, !.errorText = <<>>]

\* createUserCard with the email and city interpolations exchanged.
createUserCard_swapped(user) ==
    << "<div class=user-card><h3 class=user-name>", user.name,
       "</h3><ul class=user-details><li><strong>Email:</strong> ",
       ToText(user.address[1].city),
       "</li><li><strong>City:</strong> ", user.email,
       "</li></ul></div>" >>

\* The card's text: the template's pieces and the three interpolations.
\* Defined only when user.address is present (user.address.city throws
\* otherwise, see displayUsers).
createUserCard(user) ==
    << "<div class=user-card><h3 class=user-name>", user.name,
       "</h3><ul class=user-details><li><strong>Email:</strong> ", user.email,
       "</li><li><strong>City:</strong> ", ToText(user.address[1].city),
       "</li></ul></div>" >>

RECURSIVE Join(_)
Join(parts) ==
    IF parts = <<>> THEN <<>> ELSE Head(parts) \o Join(Tail(parts))

\* displayUsers with `usersContainer.innerHTML += usersHTML`.
displayUsers_append(d, users) ==
    LET d1 == clearError(hideLoading(d)) IN
    IF users.kind = "null" \/ (users.kind = "array" /\ Len(users.items) = 0)
    THEN [dom |-> displayError(d1, NoUsersText), threw |-> FALSE]
    ELSE IF users.kind # "array"
    THEN [dom |-> d1, threw |-> TRUE]
    ELSE IF \E i \in 1..Len(users.items) : users.items[i].address = <<>>
    THEN [dom |-> d1, threw |-> TRUE]
    ELSE [dom |-> [d1 EXCEPT !.usersHTML =
                      d1.usersHTML \o
                      Join([i \in 1..Len(users.items) |->
                               createUserCard(users.items[i])])],
          threw |-> FALSE]

\* displayUsers returns the display it leaves and whether it threw.
\*   !users is true of null; users.length === 0 of the empty array;
\*   users.map is not a function of an object that is no array;
\*   user.address.city throws when an element has no address, before
\*   innerHTML is assigned.
displayUsers(d, users) ==
    LET d1 == clearError(hideLoading(d)) IN
    IF users.kind = "null" \/ (users.kind = "array" /\ Len(users.items) = 0)
    THEN [dom |-> displayError(d1, NoUsersText), threw |-> FALSE]
    ELSE IF users.kind # "array"
    THEN [dom |-> d1, threw |-> TRUE]
    ELSE IF \E i \in 1..Len(users.items) : users.items[i].address = <<>>
    THEN [dom |-> d1, threw |-> TRUE]
    ELSE [dom |-> [d1 EXCEPT !.usersHTML =
                      Join([i \in 1..Len(users.items) |->
                               createUserCard(users.items[i])])],
          threw |-> FALSE]

\* ------------------------------------------------------------- fetchUsers
\* The catch block without the call of displayError.
fetchUsersCatch_noBanner(d, message) ==
    [dom |-> d, ret |-> SAMPLE_USERS]

\* The catch block of fetchUsers: banner, then the fallback is returned.
fetchUsersCatch(d, message) ==
    [dom |-> displayError(d, FailedText(message)), ret |-> SAMPLE_USERS]

\* fetchUsers without the `if (!response.ok)` check.
ThrowsOnStatus_never(status) == FALSE

\* Lines 123-125: whether the response is thrown as an error.
ThrowsOnStatus(status) == ~Ok(status)

\* ------------------------------------------------------- handleFetchUsers
\* handleFetchUsers without its try/catch.
handleFetchUsersResume_noCatch(d, users) ==
    LET r == displayUsers(d, users) IN
    [dom |-> r.dom, outcome |-> IF r.threw THEN "escaped" ELSE "returned"]

\* The part of handleFetchUsers after `await fetchUsers()`: render, and the
\* catch-all.  outcome is how the invocation ended: "returned" (nothing was
\* thrown), "caught" (the catch-all ran) or "escaped" (it rejected).
handleFetchUsersResume(d, users) ==
    LET r == displayUsers(d, users) IN
    IF r.threw
    THEN [dom |-> displayError(r.dom, UnexpectedText), outcome |-> "caught"]
    ELSE [dom |-> r.dom, outcome |-> "returned"]

\* ------------------------------------------------------------------ state
VARIABLES
    dom,        \* the display
    pc,         \* per trigger: where its handleFetchUsers invocation is
    response,   \* per trigger: status of the response held by fetchUsers, 0 if none
    users,      \* per trigger: what fetchUsers returned to handleFetchUsers
    behaviour,  \* per trigger: what the endpoint did for it (observer)
    overlapped, \* per trigger: was another trigger in flight with it (observer)
    hadCards,   \* per trigger: did the container hold cards at its click (observer)
    last        \* the most recent completion and how it relates to the one
                \* before it (observer)

vars == <<dom, pc, response, users, behaviour, overlapped, hadCards, last>>

\* What the endpoint did for one trigger.  fetch: "pending", "rejected" or
\* "responded"; json: "unread", "rejected" or "parsed".
NoBehaviour ==
    [fetch |-> "pending", status |-> 0, json |-> "unread",
     message |-> <<>>, value |-> Undefined]

\* The observer's record of the most recent completion:
\*   n            0 before the first completion, 1 from then on
\*   fresh        the completion was the last step taken: dom is the display
\*                that completion left
\*   behaviour    what the endpoint did for the trigger that completed
\*   overlapped   whether another trigger was in flight with it
\*   outcome      how its handleFetchUsers ended
\*   twice        it and the completion before it ran one after the other,
\*                neither overlapped, with the same endpoint behaviour
\*   untouched    its last step left the container as it found it
\*   prevHadCards the container held cards when the trigger was clicked
NoCompletion ==
    [n |-> 0, fresh |-> FALSE, behaviour |-> NoBehaviour, overlapped |-> FALSE,
     outcome |-> "none", twice |-> FALSE, untouched |-> FALSE,
     prevHadCards |-> FALSE]

\* What the observer keeps once another step has been taken: of a trigger
\* that ran alone, what the endpoint did (the next trigger is compared with
\* it); of an overlapped one, only that it was overlapped.
Stale(l) ==
    IF l.n = 0 THEN l
    ELSE IF l.overlapped THEN [NoCompletion EXCEPT !.n = 1, !.overlapped = TRUE]
    ELSE [NoCompletion EXCEPT !.n = 1, !.behaviour = l.behaviour]

InFlight(t) == pc[t] \in {"awaitFetch", "awaitJson", "resumed"}
Awaiting(t) == pc[t] \in {"awaitFetch", "awaitJson"}

\* A microtask is queued: the continuation of handleFetchUsers after
\* fetchUsers returned.  The event loop runs it before any other task.
MicrotaskPending == \E t \in Triggers : pc[t] = "resumed"

Init ==
    /\ dom = InitDom
    /\ pc = [t \in Triggers |-> "idle"]
    /\ response = [t \in Triggers |-> 0]
    /\ users = [t \in Triggers |-> Undefined]
    /\ behaviour = [t \in Triggers |-> NoBehaviour]
    /\ overlapped = [t \in Triggers |-> FALSE]
    /\ hadCards = [t \in Triggers |-> FALSE]
    /\ last = NoCompletion

\* ---------------------------------------------------------------- actions
\* The click: handleFetchUsers calls fetchUsers, which shows the loading
\* state and suspends on fetch(API_URL).  Nothing prevents a click while
\* another invocation is in flight.
Click(t) ==
    /\ ~MicrotaskPending
    /\ pc[t] = "idle"
    /\ \A s \in Triggers : s < t => pc[s] # "idle"
    /\ dom' = showLoading(dom)
    /\ pc' = [pc EXCEPT ![t] = "awaitFetch"]
    /\ overlapped' =
         [s \in Triggers |->
            IF \E o \in Triggers : InFlight(o)
            THEN (s = t \/ InFlight(s) \/ overlapped[s])
            ELSE overlapped[s]]
    /\ hadCards' = [hadCards EXCEPT ![t] = (dom.usersHTML # <<>>)]
    /\ last' = Stale(last)
    /\ UNCHANGED <<response, users, behaviour>>

\* fetch(API_URL) rejects: the catch block runs and fetchUsers returns.
FetchRejects(t) ==
    /\ ~MicrotaskPending
    /\ pc[t] = "awaitFetch"
    /\ \E m \in FetchRejections :
         LET c == fetchUsersCatch(dom, m) IN
         /\ dom' = c.dom
         /\ users' = [users EXCEPT ![t] = c.ret]
         /\ behaviour' = [behaviour EXCEPT ![t].fetch = "rejected",
                                           ![t].message = m]
    /\ pc' = [pc EXCEPT ![t] = "resumed"]
    /\ last' = Stale(last)
    /\ UNCHANGED <<response, overlapped, hadCards>>

\* fetch(API_URL) resolves with a response: a non-success status is thrown
\* and caught; otherwise fetchUsers suspends on response.json().
FetchResponds(t) ==
    /\ ~MicrotaskPending
    /\ pc[t] = "awaitFetch"
    /\ \E status \in Statuses :
         /\ response' = [response EXCEPT ![t] = status]
         /\ behaviour' = [behaviour EXCEPT ![t].fetch = "responded",
                                           ![t].status = status]
         /\ IF ThrowsOnStatus(status)
            THEN LET c == fetchUsersCatch(dom, HttpErrorMessage(status)) IN
                 /\ dom' = c.dom
                 /\ users' = [users EXCEPT ![t] = c.ret]
                 /\ pc' = [pc EXCEPT ![t] = "resumed"]
            ELSE /\ pc' = [pc EXCEPT ![t] = "awaitJson"]
                 /\ UNCHANGED <<dom, users>>
    /\ last' = Stale(last)
    /\ UNCHANGED <<overlapped, hadCards>>

\* response.json() rejects (the body is not valid JSON): caught.
JsonRejects(t) ==
    /\ ~MicrotaskPending
    /\ pc[t] = "awaitJson"
    /\ \E m \in JsonRejections :
         LET c == fetchUsersCatch(dom, m) IN
         /\ dom' = c.dom
         /\ users' = [users EXCEPT ![t] = c.ret]
         /\ behaviour' = [behaviour EXCEPT ![t].json = "rejected",
                                           ![t].message = m]
    /\ pc' = [pc EXCEPT ![t] = "resumed"]
    /\ last' = Stale(last)
    /\ UNCHANGED <<response, overlapped, hadCards>>

\* response.json() resolves with one of `values`: fetchUsers returns the
\* parsed value as it is.
JsonResolvesFrom(t, values) ==
    /\ ~MicrotaskPending
    /\ pc[t] = "awaitJson"
    /\ \E v \in values :
         /\ users' = [users EXCEPT ![t] = v]
         /\ behaviour' = [behaviour EXCEPT ![t].json = "parsed",
                                           ![t].value = v]
    /\ pc' = [pc EXCEPT ![t] = "resumed"]
    /\ last' = Stale(last)
    /\ UNCHANGED <<dom, response, overlapped, hadCards>>

JsonResolves(t) == JsonResolvesFrom(t, JsonValues)

\* handleFetchUsers resumes after `await fetchUsers()` and ends.  Its locals
\* die with it; the observer keeps what the endpoint did and what was shown.
Resume(t) ==
    /\ pc[t] = "resumed"
    /\ LET h == handleFetchUsersResume(dom, users[t]) IN
       /\ dom' = h.dom
       /\ last' =
            [n |-> 1, fresh |-> TRUE,
             behaviour |-> behaviour[t], overlapped |-> overlapped[t],
             outcome |-> h.outcome,
             twice |-> /\ last.n = 1
                       /\ ~last.overlapped
                       /\ ~overlapped[t]
                       /\ last.behaviour = behaviour[t],
             untouched |-> (h.dom.usersHTML = dom.usersHTML),
             prevHadCards |-> hadCards[t]]
    /\ pc' = [pc EXCEPT ![t] = "done"]
    /\ response' = [response EXCEPT ![t] = 0]
    /\ users' = [users EXCEPT ![t] = Undefined]
    /\ behaviour' = [behaviour EXCEPT ![t] = NoBehaviour]
    /\ hadCards' = [hadCards EXCEPT ![t] = FALSE]
    /\ UNCHANGED overlapped

Next ==
    \E t \in Triggers :
        \/ Click(t)
        \/ FetchRejects(t)
        \/ FetchResponds(t)
        \/ JsonRejects(t)
        \/ JsonResolves(t)
        \/ Resume(t)

Spec == Init /\ [][Next]_vars

\* Whether a trigger completes does not depend on what the array holds.
\* The fair specification draws the parsed body from one value of each kind
\* the render distinguishes: null, an object, the empty array and the arrays
\* of one element.
KindValues ==
    { v \in JsonValues : Len(v.items) <= 1 }

JsonResolvesKind(t) == JsonResolvesFrom(t, KindValues)

\* The steps that are not clicks: a promise settles, or the queued
\* continuation runs.
Settle ==
    \E t \in Triggers :
        \/ FetchRejects(t)
        \/ FetchResponds(t)
        \/ JsonRejects(t)
        \/ JsonResolvesKind(t)
        \/ Resume(t)

FairNext == (\E t \in Triggers : Click(t)) \/ Settle

\* While a promise is pending or a continuation is queued, one of them is
\* eventually served: the fetch and the body read settle (the premise of the
\* termination claim) and the event loop runs a queued microtask.  Nothing
\* obliges the user to click.
FairSpec == Init /\ [][FairNext]_vars /\ WF_vars(Settle)

\* ----------------------------------------------------- reading the display
\* Whether text `part` occurs in `text`.
Contains(text, part) ==
    \E i \in 1..(Len(text) - Len(part) + 1) :
        SubSeq(text, i, i + Len(part) - 1) = part

\* The cards in the container, as the page shows them: one per opening
\* <div class=user-card>, with the text of its name, email and city.
CardOpen == "<div class=user-card><h3 class=user-name>"

CardStarts(html) == { i \in 1..Len(html) : html[i] = CardOpen }

RECURSIVE CardsFrom(_, _)
CardsFrom(html, i) ==
    IF i > Len(html) THEN <<>>
    ELSE IF html[i] = CardOpen /\ i + 5 <= Len(html)
    THEN << <<html[i + 1], html[i + 3], html[i + 5]>> >> \o CardsFrom(html, i + 1)
    ELSE CardsFrom(html, i + 1)

CardsShown(d) == CardsFrom(d.usersHTML, 1)

\* name, email and city of each element of a sequence of well-formed users.
Fields(items) ==
    [i \in 1..Len(items) |->
        <<items[i].name, items[i].email, items[i].address[1].city[1]>>]

WellFormed(v) ==
    /\ v.kind = "array"
    /\ \A i \in 1..Len(v.items) :
         /\ v.items[i].address # <<>>
         /\ v.items[i].address[1].city # <<>>

\* --------------------------------------------------- endpoint behaviours
Rejected(b) == b.fetch = "rejected"
BadStatus(b) == b.fetch = "responded" /\ ~Ok(b.status)
InvalidJson(b) == b.json = "rejected"
Parsed(b) == b.json = "parsed"

\* The fetch failed: the request rejected, the status is no success, or the
\* body is not valid JSON.
Failure(b) == Rejected(b) \/ BadStatus(b) \/ InvalidJson(b)

\* The message of the failure.
FailureMessage(b) ==
    IF BadStatus(b) THEN <<"HTTP error! Status: ", StatusText(b.status)>>
    ELSE b.message

NonEmptySuccess(b) == Parsed(b) /\ WellFormed(b.value) /\ Len(b.value.items) > 0
EmptySuccess(b) == Parsed(b) /\ b.value.kind = "array" /\ Len(b.value.items) = 0

\* The body parses but is no sequence of users with address.city.
WrongShape(b) == Parsed(b) /\ ~WellFormed(b.value)
\* ... and rendering it throws: no array, or an element without address.
ThrowsInRender(b) ==
    /\ Parsed(b)
    /\ \/ b.value.kind = "object"
       \/ /\ b.value.kind = "array"
          /\ \E i \in 1..Len(b.value.items) : b.value.items[i].address = <<>>

\* The display one trigger leaves on the freshly loaded page when the
\* endpoint behaves as b: the click, fetchUsers, the render.
RunOnce(b) ==
    LET d1 == showLoading(InitDom)
        f == IF b.fetch = "rejected" \/ b.json = "rejected"
             THEN fetchUsersCatch(d1, b.message)
             ELSE IF ThrowsOnStatus(b.status)
             THEN fetchUsersCatch(d1, HttpErrorMessage(b.status))
             ELSE [dom |-> d1, ret |-> b.value]
    IN handleFetchUsersResume(f.dom, f.ret).dom

NoneInFlight == \A t \in Triggers : ~InFlight(t)

\* ----------------------------------------------------------------- claims
\* C1: fetchUsers never propagates a failure of the fetch.  Whenever it has
\* returned after the request rejected, the status was no success or json()
\* rejected, the value it returned is exactly the fallback of three users,
\* Leanne Graham, Ervin Howell, Clementine Bauch in that order; nothing else
\* is returned for a response whose status is no success.
C1_FallbackOnFailure ==
    \A t \in Triggers :
        (pc[t] = "resumed" /\ (Failure(behaviour[t]) \/ ~Ok(response[t])))
            => /\ users[t] = SAMPLE_USERS
               /\ [i \in 1..Len(users[t].items) |-> users[t].items[i].name]
                    = <<"Leanne Graham", "Ervin Howell", "Clementine Bauch">>

C1_Witness ==
    \E t \in Triggers :
        /\ pc[t] = "resumed"
        /\ response[t] = 500
        /\ users[t] = SAMPLE_USERS

\* C2 (as claimed): when the trigger of a failed fetch has completed, the
\* error banner is visible and contains the failure's message while the
\* three fallback cards are in the container.
C2_BannerBesideFallback ==
    (last.fresh /\ Failure(last.behaviour))
        => /\ ~dom.errorHidden
           /\ Contains(dom.errorText, FailureMessage(last.behaviour))
           /\ CardsShown(dom) = Fields(SAMPLE_USERS.items)

\* C3: when a trigger whose fetch succeeded with a non-empty sequence of
\* well-formed users has completed, the container holds exactly one card
\* per element, in input order, the i-th with the i-th user's name, email
\* and city, and the loading indicator and the error banner are hidden.
C3_OneCardPerUser ==
    (last.fresh /\ NonEmptySuccess(last.behaviour))
        => /\ Cardinality(CardStarts(dom.usersHTML))
                = Len(last.behaviour.value.items)
           /\ CardsShown(dom) = Fields(last.behaviour.value.items)
           /\ dom.loadingHidden
           /\ dom.errorHidden

C3_Witness ==
    /\ last.fresh
    /\ NonEmptySuccess(last.behaviour)
    /\ Len(last.behaviour.value.items) = 2
    /\ last.behaviour.value.items[1] # last.behaviour.value.items[2]

\* C4: when a trigger that overlapped no other trigger and whose fetch
\* succeeded with the empty sequence has completed, the banner is visible
\* with "No users found.", the container holds no card and the loading
\* indicator is hidden, whatever was on display before.
C4_EmptyResult ==
    (last.fresh /\ ~last.overlapped /\ EmptySuccess(last.behaviour))
        => /\ ~dom.errorHidden
           /\ dom.errorText = <<"No users found.">>
           /\ dom.usersHTML = <<>>
           /\ CardsShown(dom) = <<>>
           /\ dom.loadingHidden

C4_Witness ==
    /\ last.fresh
    /\ ~last.overlapped
    /\ EmptySuccess(last.behaviour)
    /\ last.prevHadCards

C6_Completes ==
    /\ [](last.fresh =>
            /\ last.outcome \in {"returned", "caught"}
            /\ (last.outcome = "caught" <=> ThrowsInRender(last.behaviour))
            /\ last.outcome = "caught" =>
                  /\ ~dom.errorHidden
                  /\ dom.errorText =
                        <<"An unexpected error occurred. Please try again.">>
                  /\ dom.loadingHidden)
    /\ \A t \in Triggers : InFlight(t) ~> (pc[t] = "done")

C6_Witness ==
    /\ last.fresh
    /\ last.outcome = "caught"
    /\ NoneInFlight

\* C7: two triggers run one after the other, each to completion, with the
\* same endpoint behaviour leave the display that one trigger leaves on the
\* freshly loaded page, whatever was displayed before the two.
C7_Idempotent ==
    (last.fresh /\ last.twice) => dom = RunOnce(last.behaviour)

C7_Witness ==
    /\ last.fresh
    /\ last.twice
    /\ last.prevHadCards
    /\ Failure(last.behaviour)

\* C8 (as claimed): when the last of overlapping triggers has completed, the
\* display is the one that trigger would have left had it run alone.
C8_LaterRenderWins ==
    (last.fresh /\ last.overlapped /\ NoneInFlight)
        => dom = RunOnce(last.behaviour)

\* C8 (amended): when the last of overlapping triggers has completed, the
\* loading indicator and the error banner are the ones that trigger would
\* have left had it run alone; the cards are its own when it renders cards
\* (a non-empty success, or the fallback after a failure); when it renders
\* none (an empty result, or rendering throws) the container is left as it
\* was, so the cards of the trigger that resolved before it stay on display.
C8_LaterRenderWinsExceptCards ==
    (last.fresh /\ last.overlapped /\ NoneInFlight)
        => LET alone == RunOnce(last.behaviour) IN
           /\ dom.loadingHidden = alone.loadingHidden
           /\ dom.errorHidden = alone.errorHidden
           /\ dom.errorText = alone.errorText
           /\ IF alone.usersHTML # <<>>
              THEN dom.usersHTML = alone.usersHTML
              ELSE last.untouched

C8_Witness ==
    /\ last.fresh
    /\ last.overlapped
    /\ NoneInFlight
    /\ EmptySuccess(last.behaviour)
    /\ last.untouched
    /\ dom.usersHTML # <<>>

\* C9: a click puts the display in the Loading state before the fetch is
\* awaited, from any state: loading indicator visible, banner hidden,
\* container empty; and while a trigger that overlaps no other is awaiting
\* its fetch the display stays so.
LoadingView(d) == ~d.loadingHidden /\ d.errorHidden /\ d.usersHTML = <<>>

C9_LoadingFirst ==
    /\ [][\A t \in Triggers :
            (pc[t] = "idle" /\ pc'[t] = "awaitFetch") => LoadingView(dom')]_vars
    /\ [](\A t \in Triggers :
            (Awaiting(t) /\ ~overlapped[t]) => LoadingView(dom))

C9_Witness ==
    \E t \in Triggers :
        /\ pc[t] = "awaitJson"
        /\ ~overlapped[t]
        /\ hadCards[t]
        /\ dom.errorText # <<>>

\* C10 (as claimed): in every reachable state the loading indicator is
\* visible if some trigger is awaiting its fetch, and hidden if no trigger
\* is pending.
C10_LoadingTracksInFlight ==
    /\ (\E t \in Triggers : Awaiting(t)) => ~dom.loadingHidden
    /\ NoneInFlight => dom.loadingHidden

\* C10 (amended): in every reachable state the loading indicator is hidden
\* if no trigger is pending, and visible if a trigger that overlaps no other
\* trigger is awaiting its fetch.  (Of overlapping triggers the first to
\* settle hides it while the others still await.)
C10_LoadingTracksSingleTrigger ==
    /\ (\E t \in Triggers : Awaiting(t) /\ ~overlapped[t]) => ~dom.loadingHidden
    /\ NoneInFlight => dom.loadingHidden

C10_Witness ==
    /\ last.n = 1
    /\ \E t \in Triggers : Awaiting(t) /\ ~overlapped[t] /\ ~dom.loadingHidden

====
